---- MODULE Spec2Model ----
(***************************************************************************)
(* A model of ChatbotCore: the /chat request handler of app.py driving the *)
(* prebuilt tool-calling agent, the rebuild-or-reuse decision of           *)
(* get_vectorstore, and the ingestion pass of load_and_process_documents.  *)
(* Three specifications share the module: SpecChat, SpecIndex, SpecIngest. *)
(***************************************************************************)
EXTENDS Integers, Sequences, FiniteSets, TLC

VARIABLES
    \* ---- /chat request (app.py) ----
    req,        \* ChatRequest.messages: sequence of [role, content]
    script,     \* the behaviour of the underlying model for this request
    conv,       \* the agent's message list (state["messages"])
    pc,         \* "START", "THINKING", "TOOL_CALL", "RETURN", "DONE", "FAILED"
    step,       \* superstep number of the agent graph
    roundTrips, \* completed THINKING -> TOOL_CALL -> THINKING cycles
    modelCalls, \* calls made to the underlying model
    capHit,     \* the step budget cut a tool request short
    response,   \* what the HTTP caller receives
    \* ---- get_vectorstore (vector_store.py) ----
    disk,       \* the persist directory
    ipc,        \* position inside get_vectorstore
    args,       \* the splits argument of the call in progress / last call
    result,     \* outcome of the last call
    handle,     \* contents of the index returned by the last call
    embedded,   \* number of chunks embedded so far
    calls,      \* number of get_vectorstore calls started
    lastBuild,  \* chunk set of the build that last passed the empty guard
    \* ---- load_and_process_documents (vector_store.py) ----
    folder,     \* the data folder: [exists, listable, files]
    lpc,        \* "ready" or "returned"
    splits      \* the returned chunk list

chatVars   == <<req, script, conv, pc, step, roundTrips, modelCalls, capHit, response>>
indexVars  == <<disk, ipc, args, result, handle, embedded, calls, lastBuild>>
ingestVars == <<folder, lpc, splits>>
vars       == <<chatVars, indexVars, ingestVars>>

(***************************************************************************)
(* Bounds of the model.                                                    *)
(***************************************************************************)
MaxReqLen     == 2   \* messages in one request
MaxRounds     == 13  \* longest scripted run of tool requests before the final answer
MaxCalls      == 3   \* get_vectorstore calls in one behaviour
MaxChunkId    == 2   \* distinct chunks offered to get_vectorstore
MaxFiles      == 3   \* directory entries in the data folder
MaxContentLen == 4   \* characters in one file
ChunkSize     == 3   \* chunk_size argument
ChunkOverlap  == 1   \* chunk_overlap argument

(***************************************************************************)
(* Generic helpers.                                                        *)
(***************************************************************************)
IsPrefix(s, t) == Len(s) <= Len(t) /\ \A i \in 1..Len(s) : s[i] = t[i]

SeqsUpTo(S, n) == UNION {[1..k -> S] : k \in 0..n}

Last(s) == s[Len(s)]

(***************************************************************************)
(* PART 1.  The /chat handler and the agent loop.                          *)
(***************************************************************************)

\* langgraph's default recursion limit: agent.invoke is given no config.
RecursionLimit == 25

\* The answer of chat when no message of the result carries content.
Fallback == "Khong tim thay phan hoi phu hop."

\* The message the prebuilt agent substitutes for a tool request it has no
\* steps left to serve.
NeedMoreSteps == "Sorry, need more steps to process this request."

\* The tools registered with the agent.
ToolNames == {"retrieve_company_documents", "tavily_search"}

UnknownTool == "no_such_tool"

InvalidToolError == "Error: not a valid tool"
ToolRaisedError  == "Error: tool raised"
ToolOutput       == "tool output"

Forever == 0 - 1

\* ChatMessage.role is any string: the two roles chat forwards, and one
\* standing for every other value.
ReqRoles    == {"user", "assistant", "system"}
ReqContents == {"hello"}
Finals      == {"", "final answer"}
Faults      == {"none", "tool_raises", "model_raises"}

\* ChatRequest.messages: any list of messages, the empty one included
\* (session_id is never read).
Requests == SeqsUpTo([role : ReqRoles, content : ReqContents], MaxReqLen)

Scripts == [tool   : ToolNames \cup {UnknownTool},
            rounds : {Forever} \cup 0..MaxRounds,
            final  : Finals,
            fault  : Faults]

HumanMessage(c) == [role |-> "user", content |-> c, call |-> "none", status |-> "ok"]
AIMessage(c)    == [role |-> "assistant", content |-> c, call |-> "none", status |-> "ok"]
AIToolCall(t)   == [role |-> "assistant", content |-> "", call |-> t, status |-> "ok"]
ToolMessage(t, c, st) == [role |-> "tool", content |-> c, call |-> t, status |-> st]

\* chat, the conversion loop: user -> HumanMessage, assistant -> AIMessage,
\* any other role is dropped.
RECURSIVE ConvertMessages(_)
ConvertMessages(ms) ==
    IF ms = <<>> THEN <<>>
    ELSE LET m    == ms[Len(ms)]
             init == ConvertMessages(SubSeq(ms, 1, Len(ms) - 1))
         IN  IF m.role = "user" THEN Append(init, HumanMessage(m.content))
             ELSE IF m.role = "assistant" THEN Append(init, AIMessage(m.content))
             ELSE init

\* The opaque model call number n (1-based) under script s.
ModelDecision(s, n) ==
    IF s.rounds = Forever \/ n <= s.rounds
    THEN [kind |-> "tool", tool |-> s.tool, content |-> ""]
    ELSE IF s.fault = "model_raises"
    THEN [kind |-> "raise", tool |-> "none", content |-> ""]
    ELSE [kind |-> "final", tool |-> "none", content |-> s.final]

\* remaining_steps as the agent node sees it at superstep st.
RemainingSteps(st) == RecursionLimit - st

\* Variant: the agent node never checks the steps that remain.
MutAreMoreStepsNeeded(st, hasToolCalls) == FALSE

\* The agent node's test that a tool request can no longer be served.
AreMoreStepsNeeded(st, hasToolCalls) == hasToolCalls /\ RemainingSteps(st) < 2

\* Variant: the final answer overwrites the last message instead of being
\* appended.
MutAgentNode(c, st, d) ==
    IF d.kind = "tool" /\ AreMoreStepsNeeded(st, TRUE)
    THEN [conv |-> Append(c, AIMessage(NeedMoreSteps)), pc |-> "RETURN", capHit |-> TRUE]
    ELSE IF d.kind = "tool"
    THEN [conv |-> Append(c, AIToolCall(d.tool)), pc |-> "TOOL_CALL", capHit |-> FALSE]
    ELSE [conv |-> IF c = <<>> THEN <<AIMessage(d.content)>>
                   ELSE [c EXCEPT ![Len(c)] = AIMessage(d.content)],
          pc |-> "RETURN", capHit |-> FALSE]

\* The agent node: one THINKING step on decision d (never a "raise").
AgentNode(c, st, d) ==
    IF d.kind = "tool" /\ AreMoreStepsNeeded(st, TRUE)
    THEN [conv |-> Append(c, AIMessage(NeedMoreSteps)), pc |-> "RETURN", capHit |-> TRUE]
    ELSE IF d.kind = "tool"
    THEN [conv |-> Append(c, AIToolCall(d.tool)), pc |-> "TOOL_CALL", capHit |-> FALSE]
    ELSE [conv |-> Append(c, AIMessage(d.content)), pc |-> "RETURN", capHit |-> FALSE]

\* Variant: a failing tool call aborts the request.
MutToolNode(c, fault) ==
    LET t == Last(c).call
    IN  IF t \notin ToolNames \/ fault = "tool_raises"
        THEN [conv |-> c, pc |-> "FAILED"]
        ELSE [conv |-> Append(c, ToolMessage(t, ToolOutput, "ok")), pc |-> "THINKING"]

\* The tools node: runs the call requested by the last message.
ToolNode(c, fault) ==
    LET t == Last(c).call
    IN  IF t \notin ToolNames
        THEN [conv |-> Append(c, ToolMessage(t, InvalidToolError, "error")),
              pc |-> "THINKING"]
        ELSE IF fault = "tool_raises"
        THEN [conv |-> Append(c, ToolMessage(t, ToolRaisedError, "error")),
              pc |-> "THINKING"]
        ELSE [conv |-> Append(c, ToolMessage(t, ToolOutput, "ok")), pc |-> "THINKING"]

\* chat, the answer extraction: the last message of the result that is a
\* message with a content attribute; the fallback when there is none.
ExtractAnswer(ms) ==
    IF ms = <<>> THEN Fallback ELSE Last(ms).content

NoResponse    == [kind |-> "none", body |-> ""]
Answer(text)  == [kind |-> "answer", body |-> text]
HttpError500  == [kind |-> "error", body |-> "Agent error"]

IndexIdle ==
    /\ disk = [dir |-> FALSE, marker |-> FALSE, other |-> FALSE,
               corrupt |-> FALSE, stored |-> <<>>]
    /\ ipc = "idle" /\ args = <<>> /\ result = "none" /\ handle = <<>>
    /\ embedded = 0 /\ calls = 0 /\ lastBuild = <<>>

IngestIdle ==
    /\ folder = [exists |-> FALSE, listable |-> TRUE, files |-> <<>>]
    /\ lpc = "ready" /\ splits = <<>>

ChatIdle ==
    /\ req = <<>> /\ script = [tool |-> UnknownTool, rounds |-> 0,
                               final |-> "", fault |-> "none"]
    /\ conv = <<>> /\ pc = "START" /\ step = 0 /\ roundTrips = 0
    /\ modelCalls = 0 /\ capHit = FALSE /\ response = NoResponse

InitChat ==
    /\ req \in Requests
    /\ script \in Scripts
    /\ conv = <<>> /\ pc = "START" /\ step = 0 /\ roundTrips = 0
    /\ modelCalls = 0 /\ capHit = FALSE /\ response = NoResponse
    /\ IndexIdle /\ IngestIdle

\* chat lines 98-108: build the message list and enter the graph; the
\* graph's start node takes superstep 0.
ChatStart ==
    /\ pc = "START"
    /\ conv' = ConvertMessages(req)
    /\ pc' = "THINKING"
    /\ step' = 1
    /\ UNCHANGED <<req, script, roundTrips, modelCalls, capHit, response>>
    /\ UNCHANGED <<indexVars, ingestVars>>

\* One THINKING step: the model is called on the whole conversation.
Think ==
    /\ pc = "THINKING"
    /\ step <= RecursionLimit
    /\ LET d == ModelDecision(script, modelCalls + 1)
       IN  /\ modelCalls' = modelCalls + 1
           /\ IF d.kind = "raise"
              THEN /\ pc' = "FAILED"
                   /\ response' = HttpError500
                   /\ UNCHANGED <<conv, capHit, step>>
              ELSE LET r == AgentNode(conv, step, d)
                   IN  /\ conv' = r.conv
                       /\ pc' = r.pc
                       /\ capHit' = r.capHit
                       /\ step' = step + 1
                       /\ UNCHANGED response
    /\ UNCHANGED <<req, script, roundTrips>>
    /\ UNCHANGED <<indexVars, ingestVars>>

\* One TOOL_CALL step.
ToolCall ==
    /\ pc = "TOOL_CALL"
    /\ LET r == ToolNode(conv, script.fault)
       IN  /\ conv' = r.conv
           /\ pc' = r.pc
           /\ response' = IF r.pc = "FAILED" THEN HttpError500 ELSE response
    /\ step' = step + 1
    /\ roundTrips' = roundTrips + 1
    /\ UNCHANGED <<req, script, modelCalls, capHit>>
    /\ UNCHANGED <<indexVars, ingestVars>>

\* chat lines 110-114: the answer is read off the result.
ChatReturn ==
    /\ pc = "RETURN"
    /\ response' = Answer(ExtractAnswer(conv))
    /\ pc' = "DONE"
    /\ UNCHANGED <<req, script, conv, step, roundTrips, modelCalls, capHit>>
    /\ UNCHANGED <<indexVars, ingestVars>>

NextChat == ChatStart \/ Think \/ ToolCall \/ ChatReturn

SpecChat == InitChat /\ [][NextChat]_vars

(***************************************************************************)
(* Claims about the /chat handler, checked under SpecChat.                 *)
(***************************************************************************)

\* The largest number of round-trips the step budget leaves room for.
MaxRoundTrips == (RecursionLimit - 1) \div 2

HasToolError(ms) ==
    \E i \in 1..Len(ms) : ms[i].role = "tool" /\ ms[i].status = "error"

\* The content of the last assistant message with non-empty content, or the
\* fallback when there is none.
RECURSIVE LastAssistantText(_)
LastAssistantText(ms) ==
    IF ms = <<>> THEN Fallback
    ELSE IF Last(ms).role = "assistant" /\ Last(ms).content # ""
    THEN Last(ms).content
    ELSE LastAssistantText(SubSeq(ms, 1, Len(ms) - 1))

\* C1: when the agent loop runs out of round-trips the request is answered
\* with the canonical fallback string, never with an error response.
C1_CapYieldsFallback ==
    (pc \in {"DONE", "FAILED"} /\ capHit) => response = Answer(Fallback)

\* C2: every invocation stops within the step budget; the round-trips never
\* exceed the maximum; a model that requests a tool on every call is stopped
\* after exactly the maximum, and a model that stops earlier is not cut short.
C2_BoundedRoundTrips ==
    /\ roundTrips <= MaxRoundTrips
    /\ modelCalls <= MaxRoundTrips + 1
    /\ step <= RecursionLimit + 1
    /\ capHit => roundTrips = MaxRoundTrips
    /\ (pc \in {"RETURN", "DONE"} /\ script.rounds = Forever)
           => (capHit /\ roundTrips = MaxRoundTrips)
    /\ (pc \in {"RETURN", "DONE"} /\ script.rounds \in 0..MaxRoundTrips)
           => (~capHit /\ roundTrips = script.rounds)

C2_Witness ==
    /\ pc = "DONE" /\ script.rounds = Forever /\ script.tool = UnknownTool
    /\ roundTrips = MaxRoundTrips /\ capHit

\* C3: the answer is the content of the last assistant message with
\* non-empty content, and the fallback string when there is no such message.
C3_AnswerIsLastAssistantText ==
    pc = "DONE" => response = Answer(LastAssistantText(conv))

\* C8: a tool call that names an unknown tool or raises appends an error
\* tool message for that call and returns to THINKING with no response sent;
\* a final answer the model gives afterwards is what the caller receives.
C8_ToolErrorRecovered ==
    [][/\ (pc = "TOOL_CALL" /\ (Last(conv).call \notin ToolNames
                                \/ script.fault = "tool_raises"))
            => /\ pc' = "THINKING"
               /\ conv' = Append(conv, Last(conv'))
               /\ Last(conv').role = "tool"
               /\ Last(conv').status = "error"
               /\ Last(conv').call = Last(conv).call
               /\ response' = NoResponse
       /\ (pc = "RETURN" /\ pc' = "DONE" /\ HasToolError(conv) /\ ~capHit)
            => response' = Answer(script.final)
      ]_vars

C8_Witness ==
    /\ pc = "DONE" /\ script.tool = UnknownTool /\ HasToolError(conv)
    /\ script.final # "" /\ response = Answer(script.final)

\* C9 as stated: every step leaves the old conversation as a prefix of the
\* new one, and the request's messages head the conversation in their
\* original order, none deleted.
C9_AppendOnly ==
    [][/\ IsPrefix(conv, conv')
       /\ pc' # "START" =>
            /\ Len(conv') >= Len(req)
            /\ \A i \in 1..Len(req) :
                  conv'[i].role = req[i].role /\ conv'[i].content = req[i].content
      ]_vars

IsForwarded(m) == m.role \in {"user", "assistant"}

\* C9 as amended: every step leaves the old conversation as a prefix of the
\* new one, and the request's messages of role user or assistant head the
\* conversation in their original order; a message of any other role is
\* absent from it.
C9_AppendOnlyForwarded ==
    [][/\ IsPrefix(conv, conv')
       /\ pc' # "START" =>
            LET kept == SelectSeq(req, IsForwarded)
            IN  /\ Len(conv') >= Len(kept)
                /\ \A i \in 1..Len(kept) :
                      conv'[i].role = kept[i].role /\ conv'[i].content = kept[i].content
      ]_vars

C9_Witness ==
    /\ pc = "DONE" /\ Len(req) = MaxReqLen
    /\ req[1].role = "system" /\ req[2].role = "user"
    /\ Len(conv) >= 4 /\ conv[1].role = "user"
    /\ \A i \in 1..Len(conv) : conv[i].role # "system"

(***************************************************************************)
(* PART 2.  get_vectorstore: rebuild or reuse the persisted index.         *)
(***************************************************************************)

ChunkSeqs == SeqsUpTo(1..MaxChunkId, MaxChunkId)

NoDir == [dir |-> FALSE, marker |-> FALSE, other |-> FALSE,
          corrupt |-> FALSE, stored |-> <<>>]

\* A complete index persisted by an earlier run from chunk list c.
PersistedIndex(c) == [dir |-> TRUE, marker |-> TRUE, other |-> FALSE,
                      corrupt |-> FALSE, stored |-> c]

InitDisks ==
    {NoDir, [NoDir EXCEPT !.dir = TRUE, !.other = TRUE]}
        \cup {PersistedIndex(c) : c \in ChunkSeqs \ {<<>>}}

\* needs_rebuild: the marker file chroma.sqlite3 is absent.
NeedsRebuild(d) == ~d.marker

\* shutil.rmtree(persist_directory) when the directory exists.
Rmtree(d) == IF d.dir THEN NoDir ELSE d

\* os.makedirs(persist_directory, exist_ok=True)
Makedirs(d) == [d EXCEPT !.dir = TRUE]

\* Chroma.from_documents, first half: the store is opened on the persist
\* directory, which creates chroma.sqlite3 before any chunk is added.
CreateClient(d) == [d EXCEPT !.marker = TRUE]

\* Chroma.from_documents, second half: the chunks are embedded and written.
AddDocuments(d, s) == [d EXCEPT !.stored = d.stored \o s]

\* Variant: an existing index is rebuilt when the chunks offered differ.
MutEntryRebuildOnNewChunks(d, s) ==
    IF NeedsRebuild(d) \/ (s # <<>> /\ s # d.stored)
    THEN IF s = <<>>
         THEN [ipc |-> "idle", result |-> "ValueError_NoSplits", handle |-> <<>>, disk |-> d]
         ELSE [ipc |-> "rmtree", result |-> "none", handle |-> <<>>, disk |-> d]
    ELSE IF d.corrupt
    THEN [ipc |-> "idle", result |-> "ValueError_LoadFailed", handle |-> <<>>, disk |-> d]
    ELSE [ipc |-> "idle", result |-> "loaded", handle |-> d.stored, disk |-> d]

\* Variant: the directory is removed before the empty-splits test.
MutEntryWipeBeforeGuard(d, s) ==
    IF NeedsRebuild(d)
    THEN IF s = <<>>
         THEN [ipc |-> "idle", result |-> "ValueError_NoSplits", handle |-> <<>>,
               disk |-> Rmtree(d)]
         ELSE [ipc |-> "rmtree", result |-> "none", handle |-> <<>>, disk |-> d]
    ELSE IF d.corrupt
    THEN [ipc |-> "idle", result |-> "ValueError_LoadFailed", handle |-> <<>>, disk |-> d]
    ELSE [ipc |-> "idle", result |-> "loaded", handle |-> d.stored, disk |-> d]

\* Variant: an index that cannot be loaded is rebuilt from the chunks.
MutEntryRebuildOnLoadFailure(d, s) ==
    IF NeedsRebuild(d)
    THEN IF s = <<>>
         THEN [ipc |-> "idle", result |-> "ValueError_NoSplits", handle |-> <<>>, disk |-> d]
         ELSE [ipc |-> "rmtree", result |-> "none", handle |-> <<>>, disk |-> d]
    ELSE IF d.corrupt
    THEN IF s = <<>>
         THEN [ipc |-> "idle", result |-> "ValueError_LoadFailed", handle |-> <<>>, disk |-> d]
         ELSE [ipc |-> "rmtree", result |-> "none", handle |-> <<>>, disk |-> d]
    ELSE [ipc |-> "idle", result |-> "loaded", handle |-> d.stored, disk |-> d]

\* get_vectorstore up to the point where it either returns, raises, or
\* starts to rebuild the persist directory.
GetVectorstoreEntry(d, s) ==
    IF NeedsRebuild(d)
    THEN IF s = <<>>
         THEN [ipc |-> "idle", result |-> "ValueError_NoSplits", handle |-> <<>>, disk |-> d]
         ELSE [ipc |-> "rmtree", result |-> "none", handle |-> <<>>, disk |-> d]
    ELSE IF d.corrupt
    THEN [ipc |-> "idle", result |-> "ValueError_LoadFailed", handle |-> <<>>, disk |-> d]
    ELSE [ipc |-> "idle", result |-> "loaded", handle |-> d.stored, disk |-> d]

InitIndex ==
    /\ disk \in InitDisks
    /\ lastBuild = disk.stored
    /\ ipc = "idle" /\ args = <<>> /\ result = "none" /\ handle = <<>>
    /\ embedded = 0 /\ calls = 0
    /\ ChatIdle /\ IngestIdle

\* A call get_vectorstore(s, embedding, persist_directory).
Call ==
    /\ ipc = "idle"
    /\ calls < MaxCalls
    /\ \E s \in ChunkSeqs :
          LET r == GetVectorstoreEntry(disk, s)
          IN  /\ args' = s
              /\ ipc' = r.ipc
              /\ result' = r.result
              /\ handle' = r.handle
              /\ disk' = r.disk
              /\ lastBuild' = IF r.ipc = "rmtree" THEN s ELSE lastBuild
    /\ calls' = calls + 1
    /\ UNCHANGED embedded
    /\ UNCHANGED <<chatVars, ingestVars>>

\* lines 89-90
BuildRmtree ==
    /\ ipc = "rmtree"
    /\ disk' = Rmtree(disk)
    /\ ipc' = "makedirs"
    /\ UNCHANGED <<args, result, handle, embedded, calls, lastBuild>>
    /\ UNCHANGED <<chatVars, ingestVars>>

\* line 92
BuildMakedirs ==
    /\ ipc = "makedirs"
    /\ disk' = Makedirs(disk)
    /\ ipc' = "client"
    /\ UNCHANGED <<args, result, handle, embedded, calls, lastBuild>>
    /\ UNCHANGED <<chatVars, ingestVars>>

\* lines 94-98, the store is opened
BuildClient ==
    /\ ipc = "client"
    /\ disk' = CreateClient(disk)
    /\ ipc' = "add"
    /\ UNCHANGED <<args, result, handle, embedded, calls, lastBuild>>
    /\ UNCHANGED <<chatVars, ingestVars>>

\* lines 94-98, the chunks are embedded and written; the call returns
BuildAdd ==
    /\ ipc = "add"
    /\ disk' = AddDocuments(disk, args)
    /\ embedded' = embedded + Len(args)
    /\ handle' = disk'.stored
    /\ result' = "built"
    /\ ipc' = "idle"
    /\ UNCHANGED <<args, calls, lastBuild>>
    /\ UNCHANGED <<chatVars, ingestVars>>

\* The build does not complete: the embedding call raises, or the process
\* is stopped.  Nothing is cleaned up.
Abandon ==
    /\ ipc \in {"rmtree", "makedirs", "client", "add"}
    /\ ipc' = "idle"
    /\ result' = "abandoned"
    /\ UNCHANGED <<disk, args, handle, embedded, calls, lastBuild>>
    /\ UNCHANGED <<chatVars, ingestVars>>

\* The persisted index becomes unreadable between two calls.
CorruptIndex ==
    /\ ipc = "idle"
    /\ disk.marker /\ ~disk.corrupt
    /\ disk' = [disk EXCEPT !.corrupt = TRUE]
    /\ UNCHANGED <<ipc, args, result, handle, embedded, calls, lastBuild>>
    /\ UNCHANGED <<chatVars, ingestVars>>

NextIndex ==
    Call \/ BuildRmtree \/ BuildMakedirs \/ BuildClient \/ BuildAdd
        \/ Abandon \/ CorruptIndex

SpecIndex == InitIndex /\ [][NextIndex]_vars

(***************************************************************************)
(* Claims about get_vectorstore, checked under SpecIndex.                  *)
(***************************************************************************)

\* C4: the build is all-or-nothing: whenever the marker file exists the
\* directory holds the complete chunk set of the build, and a call never
\* returns a partially written index.
C4_AllOrNothing ==
    /\ disk.marker => (disk.stored = lastBuild /\ lastBuild # <<>>)
    /\ result = "loaded" => handle = lastBuild

\* C5: a call that finds the marker file leaves the directory untouched and
\* embeds nothing whatever the chunks argument is, and a readable index is
\* returned with exactly the persisted contents.
C5_ReuseUnconditional ==
    [][(calls' = calls + 1 /\ disk.marker)
          => /\ disk' = disk
             /\ embedded' = embedded
             /\ ipc' = "idle"
             /\ ~disk.corrupt => (result' = "loaded" /\ handle' = disk.stored)
      ]_vars

C5_Witness ==
    /\ result = "loaded" /\ args = <<>> /\ calls >= 2
    /\ handle # <<>> /\ handle = lastBuild /\ embedded = Len(handle)

\* C6: a call with zero chunks and no marker file raises, and the directory
\* is left exactly as it was, without a marker file.
C6_EmptyCorpusGuard ==
    [][(calls' = calls + 1 /\ ~disk.marker /\ args' = <<>>)
          => /\ result' = "ValueError_NoSplits"
             /\ ipc' = "idle"
             /\ disk' = disk
             /\ ~disk'.marker
             /\ embedded' = embedded
      ]_vars

C6_Witness ==
    /\ result = "ValueError_NoSplits" /\ args = <<>>
    /\ disk.dir /\ disk.other /\ ~disk.marker

\* C7: a call that finds the marker file but cannot load the index raises a
\* load error and leaves the directory as it was, whatever the chunks are.
C7_LoadErrorNoRebuild ==
    [][(calls' = calls + 1 /\ disk.marker /\ disk.corrupt)
          => /\ result' = "ValueError_LoadFailed"
             /\ ipc' = "idle"
             /\ disk' = disk
             /\ embedded' = embedded
      ]_vars

C7_Witness ==
    /\ result = "ValueError_LoadFailed" /\ args # <<>>
    /\ disk.marker /\ disk.corrupt /\ disk.stored # <<>>

(***************************************************************************)
(* PART 3.  load_and_process_documents: the ingestion pass.                *)
(***************************************************************************)

\* A directory entry: whether its name ends in .txt, whether it can be read,
\* and the number of characters it holds.  An entry is named by its position
\* in the listing and its content is the character positions 1..len.
FileKinds ==
    {f \in [txt : BOOLEAN, readable : BOOLEAN, len : 0..MaxContentLen] :
        ~f.readable => f.len = 0}

Folders ==
    {[exists |-> FALSE, listable |-> TRUE, files |-> <<>>],
     [exists |-> TRUE, listable |-> FALSE, files |-> <<>>]}
        \cup [exists : {TRUE}, listable : {TRUE}, files : SeqsUpTo(FileKinds, MaxFiles)]

Min(a, b) == IF a <= b THEN a ELSE b

\* The windows the character splitter cuts a text of L characters without
\* separators into, from position start on: at most ChunkSize characters
\* each, the next window starting ChunkSize - ChunkOverlap further.
RECURSIVE Windows(_, _)
Windows(start, L) ==
    LET n == Min(ChunkSize, L - start + 1)
    IN  IF start + n - 1 >= L
        THEN <<[start |-> start, len |-> n]>>
        ELSE <<[start |-> start, len |-> n]>>
                 \o Windows(start + ChunkSize - ChunkOverlap, L)

\* text_splitter.split_text on one document's content.
SplitText(L) == IF L = 0 THEN <<>> ELSE Windows(1, L)

TagSource(ws, src) ==
    [k \in 1..Len(ws) |-> [source |-> src, start |-> ws[k].start, len |-> ws[k].len]]

\* text_splitter.split_documents: the chunks of each document, in order.
RECURSIVE SplitDocuments(_)
SplitDocuments(docs) ==
    IF docs = <<>> THEN <<>>
    ELSE SplitDocuments(SubSeq(docs, 1, Len(docs) - 1))
             \o TagSource(SplitText(Last(docs).len), Last(docs).source)

\* Variant: the first unreadable file ends the loop.
RECURSIVE MutLoadDocuments(_, _)
MutLoadDocuments(files, i) ==
    IF i > Len(files) THEN <<>>
    ELSE IF ~files[i].txt THEN MutLoadDocuments(files, i + 1)
    ELSE IF ~files[i].readable THEN <<>>
    ELSE <<[source |-> i, len |-> files[i].len]>> \o MutLoadDocuments(files, i + 1)

\* The loop over the listing from entry i on: a .txt entry that can be read
\* becomes a document, one that cannot is skipped, any other is ignored.
RECURSIVE LoadDocuments(_, _)
LoadDocuments(files, i) ==
    IF i > Len(files) THEN <<>>
    ELSE IF ~files[i].txt THEN LoadDocuments(files, i + 1)
    ELSE IF ~files[i].readable THEN LoadDocuments(files, i + 1)
    ELSE <<[source |-> i, len |-> files[i].len]>> \o LoadDocuments(files, i + 1)

LoadAndProcessDocuments(f) ==
    IF ~f.exists THEN <<>>
    ELSE IF ~f.listable THEN <<>>
    ELSE IF f.files = <<>> THEN <<>>
    ELSE LET documents == LoadDocuments(f.files, 1)
         IN  IF documents = <<>> THEN <<>> ELSE SplitDocuments(documents)

InitIngest ==
    /\ folder \in Folders
    /\ lpc = "ready" /\ splits = <<>>
    /\ ChatIdle /\ IndexIdle

LoadAndProcess ==
    /\ lpc = "ready"
    /\ splits' = LoadAndProcessDocuments(folder)
    /\ lpc' = "returned"
    /\ UNCHANGED folder
    /\ UNCHANGED <<chatVars, indexVars>>

NextIngest == LoadAndProcess

SpecIngest == InitIngest /\ [][NextIngest]_vars

(***************************************************************************)
(* Claims about load_and_process_documents, checked under SpecIngest.      *)
(***************************************************************************)

ChunksOf(i) == {k \in 1..Len(splits) : splits[k].source = i}

Covered(i, p) ==
    \E k \in ChunksOf(i) : splits[k].start <= p /\ p < splits[k].start + splits[k].len

\* C10: after the pass every readable .txt file is chunked in full, whatever
\* unreadable files stand before or after it, and no chunk comes from a file
\* that is unreadable or has no .txt extension.
C10_UnreadableSkipped ==
    lpc = "returned" =>
        \A i \in 1..Len(folder.files) :
            LET f == folder.files[i]
            IN  IF f.txt /\ f.readable
                THEN /\ \A p \in 1..f.len : Covered(i, p)
                     /\ \A k \in ChunksOf(i) :
                           /\ splits[k].len \in 1..ChunkSize
                           /\ splits[k].start + splits[k].len - 1 <= f.len
                ELSE ChunksOf(i) = {}

C10_Witness ==
    /\ lpc = "returned"
    /\ \E i, j, k \in 1..Len(folder.files) :
          /\ i < j /\ j < k
          /\ folder.files[j].txt /\ ~folder.files[j].readable
          /\ ChunksOf(i) # {} /\ ChunksOf(k) # {} /\ ChunksOf(j) = {}

====
